---- MODULE Spec2Model ----
(***************************************************************************)
(* Model of the shrink_slice crate (src/src/lib.rs): the Shrink trait with *)
(* its four implementations (&[T], &mut [T], &str, &mut str), the          *)
(* provided panicking method shrink, and ShrinkError with its Display.     *)
(*                                                                         *)
(* A view (a Rust slice reference) is a record [base, off, len]: base is   *)
(* "storage" for a reference into the caller's buffer, of which it covers  *)
(* the bytes off+1 .. off+len, and "dangling" for the empty slice that     *)
(* Default::default() produces (it points at no element of the buffer).    *)
(***************************************************************************)
EXTENDS Integers, Sequences, FiniteSets, TLC

VARIABLES storage, kind, view, prev, range, op, result, before, pc, panicMsg

vars == <<storage, kind, view, prev, range, op, result, before, pc, panicMsg>>

\* ---------------------------------------------------------------- bounds
MaxLen == 3      \* longest byte buffer behind a [T] view
MaxStrLen == 4   \* longest text buffer behind a str view, in bytes

\* ---------------------------------------------------------------- inputs
Kinds == {"&[T]", "&mut [T]", "&str", "&mut str"}

IsText(k) == k \in {"&str", "&mut str"}

IsMut(k) == k \in {"&mut [T]", "&mut str"}

\* element values of the byte buffers: 'h' and 'e'
Bytes == {104, 101}

\* UTF-8 encodings of 'a' (1 byte), U+00E9 (2 bytes), U+1F62C (4 bytes)
Chars == {<<97>>, <<195, 169>>, <<240, 159, 152, 172>>}

RECURSIVE SeqsUpTo(_, _)
SeqsUpTo(S, n) ==
  IF n = 0 THEN {<<>>}
  ELSE LET shorter == SeqsUpTo(S, n - 1)
       IN shorter \cup {Append(s, x) : s \in shorter, x \in S}

\* the valid UTF-8 texts of at most n bytes over Chars
RECURSIVE Utf8UpTo(_)
Utf8UpTo(n) ==
  IF n = 0 THEN {<<>>}
  ELSE LET shorter == Utf8UpTo(n - 1)
       IN shorter \cup {x \in {s \o c : s \in shorter, c \in Chars} : Len(x) <= n}

Storages(k) == IF IsText(k) THEN Utf8UpTo(MaxStrLen) ELSE SeqsUpTo(Bytes, MaxLen)

\* the range types with an inclusive or unbounded start and an exclusive or
\* unbounded end: a..b ("Range"), a.. ("RangeFrom"), ..b ("RangeTo"), .. ("RangeFull")
Ranges(maxIdx) ==
  {[rk |-> "Range", start |-> a, end |-> b] : a \in 0..maxIdx, b \in 0..maxIdx}
  \cup {[rk |-> "RangeFrom", start |-> a, end |-> 0] : a \in 0..maxIdx}
  \cup {[rk |-> "RangeTo", start |-> 0, end |-> b] : b \in 0..maxIdx}
  \cup {[rk |-> "RangeFull", start |-> 0, end |-> 0]}

NoRange == [rk |-> "none", start |-> 0, end |-> 0]

\* ---------------------------------------------------------------- views
Whole(buf) == [base |-> "storage", off |-> 0, len |-> Len(buf)]

\* Default::default() of a slice reference: the empty slice
DefaultView == [base |-> "dangling", off |-> 0, len |-> 0]

\* the elements a view refers to
Contents(buf, v) ==
  IF v.base = "storage" /\ v.len > 0 THEN SubSeq(buf, v.off + 1, v.off + v.len) ELSE <<>>

\* the buffer positions a view covers
Cells(v) == IF v.base = "storage" THEN (v.off + 1)..(v.off + v.len) ELSE {}

None == [some |-> FALSE]

Some(v) == [some |-> TRUE, val |-> v]

\* the half-open start..end a range type stands for on a slice of length len
into_slice_range(r, len) ==
  CASE r.rk = "Range" -> [start |-> r.start, end |-> r.end]
    [] r.rk = "RangeFrom" -> [start |-> r.start, end |-> len]
    [] r.rk = "RangeTo" -> [start |-> 0, end |-> r.end]
    [] r.rk = "RangeFull" -> [start |-> 0, end |-> len]

\* a sub-view that counts start from the front of the buffer, not of v
SubView_absolute(v, start, end) == [base |-> v.base, off |-> start, len |-> end - start]

\* the sub-view start..end of v
SubView(v, start, end) == [base |-> v.base, off |-> v.off + start, len |-> end - start]

\* get without the start <= end check
slice_get_noOrderCheck(v, r) ==
  LET h == into_slice_range(r, v.len)
  IN IF h.end > v.len THEN None
     ELSE Some(SubView(v, h.start, h.end))

\* get with the end bound off by one: end = len + 1 is accepted
slice_get_offByOne(v, r) ==
  LET h == into_slice_range(r, v.len)
  IN IF h.start > h.end \/ h.end > v.len + 1 THEN None
     ELSE Some(SubView(v, h.start, h.end))

\* get that rejects end = len
slice_get_strictEnd(v, r) ==
  LET h == into_slice_range(r, v.len)
  IN IF h.start > h.end \/ h.end >= v.len THEN None
     ELSE Some(SubView(v, h.start, h.end))

\* get that checks the end against the rest of the buffer, not against v
slice_get_origLen(v, r) ==
  LET h == [start |-> into_slice_range(r, v.len).start,
            end |-> IF r.rk \in {"Range", "RangeTo"} THEN r.end ELSE v.len]
  IN IF h.start > h.end \/ h.end > Len(storage) - v.off THEN None
     ELSE Some(SubView(v, h.start, h.end))

\* <[T]>::get / get_mut with a range: None unless start <= end <= len
slice_get(v, r) ==
  LET h == into_slice_range(r, v.len)
  IN IF h.start > h.end \/ h.end > v.len THEN None
     ELSE Some(SubView(v, h.start, h.end))

\* a boundary test that only looks at the length
is_char_boundary_lenOnly(buf, v, index) == index <= v.len

\* str::is_char_boundary on the text of view v
is_char_boundary(buf, v, index) ==
  IF index = 0 THEN TRUE
  ELSE IF index >= v.len THEN index = v.len
  ELSE LET b == Contents(buf, v)[index + 1] IN b < 128 \/ b >= 192

\* str::get / get_mut with a range: None unless start <= end and both offsets
\* are character boundaries
str_get(buf, v, r) ==
  LET h == into_slice_range(r, v.len)
  IN IF h.start <= h.end /\ is_char_boundary(buf, v, h.start) /\ is_char_boundary(buf, v, h.end)
     THEN Some(SubView(v, h.start, h.end))
     ELSE None

\* std::mem::take: hands out the value and leaves the default in its place
take(v) == [taken |-> v, left |-> DefaultView]

\* the unit struct ShrinkError
ShrinkError == "ShrinkError"

Ok == "Ok"

\* Option::ok_or followed by `?` and the assignment `*self = ...`:
\* cur is what the binding holds when `?` returns early
assign_or_return(cur, opt) ==
  IF opt.some THEN [self |-> opt.val, res |-> Ok]
  ELSE [self |-> cur, res |-> ShrinkError]

\* the shared impl written like the exclusive one
try_shrink_slice_taking(buf, self, r) ==
  LET t == take(self) IN assign_or_return(t.left, slice_get(t.taken, r))

\* impl<T> Shrink for &[T]
try_shrink_slice(buf, self, r) == assign_or_return(self, slice_get(self, r))

\* impl<T> Shrink for &mut [T]: the binding holds the default while get_mut runs
try_shrink_slice_mut(buf, self, r) ==
  LET t == take(self) IN assign_or_return(t.left, slice_get(t.taken, r))

\* impl Shrink for &str
try_shrink_str(buf, self, r) == assign_or_return(self, str_get(buf, self, r))

\* impl Shrink for &mut str
try_shrink_str_mut(buf, self, r) ==
  LET t == take(self) IN assign_or_return(t.left, str_get(buf, t.taken, r))

\* trait dispatch on the type of the binding
try_shrink(k, buf, self, r) ==
  CASE k = "&[T]" -> try_shrink_slice(buf, self, r)
    [] k = "&mut [T]" -> try_shrink_slice_mut(buf, self, r)
    [] k = "&str" -> try_shrink_str(buf, self, r)
    [] k = "&mut str" -> try_shrink_str_mut(buf, self, r)

\* impl fmt::Display for ShrinkError
fmt(e) == "cannot index slice by this range"

\* shrink that drops the error
shrink_silent(k, buf, self, r) ==
  LET t == try_shrink(k, buf, self, r)
  IN [self |-> t.self, panicked |-> FALSE, msg |-> ""]

\* Shrink::shrink: panics with the error's Display text when try_shrink fails
shrink(k, buf, self, r) ==
  LET t == try_shrink(k, buf, self, r)
  IN IF t.res = Ok THEN [self |-> t.self, panicked |-> FALSE, msg |-> ""]
     ELSE [self |-> t.self, panicked |-> TRUE, msg |-> fmt(t.res)]

\* ---------------------------------------------------------------- behaviour
Init ==
  /\ kind \in Kinds
  /\ storage \in Storages(kind)
  /\ view = Whole(storage)
  /\ prev = Whole(storage)
  /\ range = NoRange
  /\ op = "none"
  /\ result = "none"
  /\ before = -1
  /\ pc = "running"
  /\ panicMsg = ""

\* a call of try_shrink on the binding
TryShrink ==
  /\ pc = "running"
  /\ \E r \in Ranges(Len(storage) + 1) :
       LET t == try_shrink(kind, storage, view, r)
       IN /\ view' = t.self
          /\ result' = t.res
          /\ range' = r
  /\ prev' = view
  /\ before' = IF result = Ok THEN prev.len ELSE -1
  /\ op' = "try_shrink"
  /\ UNCHANGED <<storage, kind, pc, panicMsg>>

\* a call of shrink on the binding
Shrink ==
  /\ pc = "running"
  /\ \E r \in Ranges(Len(storage) + 1) :
       LET s == shrink(kind, storage, view, r)
       IN /\ view' = s.self
          /\ result' = IF s.panicked THEN ShrinkError ELSE Ok
          /\ pc' = IF s.panicked THEN "panicked" ELSE "running"
          /\ panicMsg' = s.msg
          /\ range' = r
  /\ prev' = view
  /\ before' = IF result = Ok THEN prev.len ELSE -1
  /\ op' = "shrink"
  /\ UNCHANGED <<storage, kind>>

Next == TryShrink \/ Shrink

Spec == Init /\ [][Next]_vars

\* ---------------------------------------------------------------- properties
\* the start and end offsets of the last call's range, on the view it was given
lo == CASE range.rk \in {"Range", "RangeFrom"} -> range.start [] OTHER -> 0

hi == CASE range.rk \in {"Range", "RangeTo"} -> range.end [] OTHER -> prev.len

Called == op \in {"try_shrink", "shrink"}

\* encoded length of the character whose first byte is b
Width(b) == IF b < 128 THEN 1 ELSE IF b < 224 THEN 2 ELSE IF b < 240 THEN 3 ELSE 4

\* the offsets between the characters of the text s, found by decoding it
RECURSIVE CharEnds(_, _)
CharEnds(s, i) ==
  IF i >= Len(s) THEN {Len(s)} ELSE {i} \cup CharEnds(s, i + Width(s[i + 1]))

Boundaries(s) == CharEnds(s, 0)

OnBoundary(i) == i \in Boundaries(Contents(storage, prev))

\* C1: a try_shrink with 0 <= start <= end <= len (for text, both offsets on
\* character boundaries) returns Ok, and the view is then exactly the
\* elements start..end of the view before, of length end - start.
C1_ValidRangeSelected ==
  (op = "try_shrink" /\ lo <= hi /\ hi <= prev.len
     /\ (IsText(kind) => OnBoundary(lo) /\ OnBoundary(hi)))
  => /\ result = Ok
     /\ Contents(storage, view) = SubSeq(Contents(storage, prev), lo + 1, hi)
     /\ view.len = hi - lo

C1_Witness ==
  /\ op = "try_shrink" /\ result = Ok /\ kind = "&mut str"
  /\ prev.off > 0 /\ 0 < lo /\ lo < hi /\ hi < prev.len
  /\ Contents(storage, view) = SubSeq(Contents(storage, prev), lo + 1, hi)

\* C2: when try_shrink fails on an exclusive (&mut) view, the binding holds
\* the original view afterwards: same contents, same length.
C2_MutFailureRestoresView ==
  (IsMut(kind) /\ op = "try_shrink" /\ result = ShrinkError)
  => /\ Contents(storage, view) = Contents(storage, prev)
     /\ view.len = prev.len

\* C3: when try_shrink fails on a shared view, the view is the same as before
\* the call: same contents, same length.
C3_SharedFailureKeepsView ==
  (~IsMut(kind) /\ op = "try_shrink" /\ result = ShrinkError)
  => /\ Contents(storage, view) = Contents(storage, prev)
     /\ view.len = prev.len
     /\ view = prev

C3_Witness ==
  /\ ~IsMut(kind) /\ op = "try_shrink" /\ result = ShrinkError
  /\ prev.len > 0 /\ prev.len < Len(storage) /\ view = prev

\* C4: try_shrink returns ShrinkError whenever start > len or end > len or
\* end < start; it returns nothing but Ok or ShrinkError.
C4_OutOfRangeRejected ==
  op = "try_shrink"
  => /\ result \in {Ok, ShrinkError}
     /\ (lo > prev.len \/ hi > prev.len \/ hi < lo) => result = ShrinkError

C4_Witness ==
  /\ op = "try_shrink" /\ result = ShrinkError
  /\ range.rk = "Range" /\ hi < lo /\ lo <= prev.len

\* C5: on a text view, try_shrink fails when start or end lies strictly inside
\* a multi-byte character, even with start <= end <= len.
C5_InsideCharacterRejected ==
  (IsText(kind) /\ op = "try_shrink" /\ lo <= hi /\ hi <= prev.len
     /\ (~OnBoundary(lo) \/ ~OnBoundary(hi)))
  => result = ShrinkError

C5_Witness ==
  /\ kind \in {"&str", "&mut str"} /\ op = "try_shrink" /\ result = ShrinkError
  /\ Contents(storage, prev) = <<240, 159, 152, 172>>
  /\ range = [rk |-> "RangeFrom", start |-> 1, end |-> 0]

\* C6: shrink returns normally exactly when try_shrink on the same view and
\* range returns Ok, and then leaves the view try_shrink leaves; it panics
\* exactly when try_shrink returns an error, with the message
\* "cannot index slice by this range".
C6_ShrinkAgreesWithTryShrink ==
  op = "shrink"
  => LET t == try_shrink(kind, storage, prev, range)
     IN /\ (pc = "running") <=> (t.res = Ok)
        /\ (pc = "panicked") <=> (t.res = ShrinkError)
        /\ pc = "running" => view = t.self
        /\ pc = "panicked" => panicMsg = "cannot index slice by this range"

C6_Witness ==
  /\ op = "shrink" /\ pc = "panicked"
  /\ panicMsg = "cannot index slice by this range"
  /\ hi = prev.len + 1

\* C7: when try_shrink(A) succeeds and try_shrink(B) on the result succeeds,
\* one try_shrink of the first view with (a1 + b1)..(a1 + b2) succeeds too
\* and gives the same view.
C7_Composable ==
  [][(Called /\ result = Ok /\ op' = "try_shrink" /\ result' = Ok)
     => LET a1 == lo
            b1 == lo'
            b2 == hi'
            AB == [rk |-> "Range", start |-> a1 + b1, end |-> a1 + b2]
            once == try_shrink(kind, storage, prev, AB)
        IN /\ once.res = Ok
           /\ once.self = view'
           /\ Contents(storage, once.self) = Contents(storage, view')]_vars

C7_Witness ==
  /\ op = "try_shrink" /\ result = Ok /\ before > prev.len
  /\ prev.off > 0 /\ lo > 0 /\ view.len > 0 /\ view.len < prev.len

\* C8: after any calls, the view is a contiguous sub-run of the view it
\* started as, and a call never makes it longer nor lets it reach outside the
\* view before the call.
C8_NeverGrows ==
  /\ view.off >= 0 /\ view.len >= 0 /\ view.off + view.len <= Len(storage)
  /\ Cells(view) \subseteq Cells(Whole(storage))
  /\ Called
     => /\ view.len <= prev.len
        /\ Cells(view) \subseteq Cells(prev)
        /\ view.base = "storage"
           => /\ prev.base = "storage"
              /\ prev.off <= view.off
              /\ view.off + view.len <= prev.off + prev.len

C8_Witness ==
  /\ Called /\ result = Ok /\ before > prev.len
  /\ view.len > 0 /\ view.len < prev.len /\ view.off > prev.off

\* C9: try_shrink with the full range 0..len (or ..) succeeds and leaves the
\* view unchanged, also when len = 0.
C9_FullRangeNoOp ==
  (Called /\ (range.rk = "RangeFull" \/ (range.rk = "Range" /\ lo = 0 /\ hi = prev.len)))
  => /\ result = Ok
     /\ view = prev

C9_Witness ==
  /\ op = "try_shrink" /\ range.rk = "Range" /\ lo = 0 /\ hi = prev.len
  /\ before = prev.len /\ prev.len > 0 /\ view = prev

\* C10: after a successful shrink from len0 to len1 < len0, a following
\* try_shrink whose end is in (len1, len0] fails, and a range it accepts
\* selects positions counted from the current view's first element.
C10_CurrentLength ==
  (op = "try_shrink" /\ before > prev.len)
  => /\ hi \in (prev.len + 1)..before => result = ShrinkError
     /\ result = Ok
        => /\ view.off = prev.off + lo
           /\ Contents(storage, view) = SubSeq(Contents(storage, prev), lo + 1, hi)

C10_Witness ==
  /\ op = "try_shrink" /\ before > prev.len /\ prev.off > 0
  /\ hi \in (prev.len + 1)..before /\ result = ShrinkError
====
